---------------------------- MODULE Spec2Model ----------------------------
(***************************************************************************)
(* TED contract monitor (src/bot.py): the lot/winner matcher, the currency *)
(* converter, the high-value filter, and the Telegram bot's scan loop with *)
(* its deduplication map.                                                  *)
(*                                                                         *)
(* Encoding of the JSON values of a notice.  TLC cannot compare a string   *)
(* with a number, so a JSON scalar is a record [t, s, n] and a field value *)
(* is a record [k, v, d]:                                                  *)
(*   k = "absent"  the key is missing or null (notice.get gives None)      *)
(*   k = "scalar"  v = <<e>>                                               *)
(*   k = "list"    v = the elements                                        *)
(*   k = "dict"    d = the (language, value) entries, in iteration order   *)
(* Money is counted in thousands of euros, and a converted amount carries  *)
(* RateScale more digits (TLC integers are 32 bits wide); the arithmetic   *)
(* is exact where the source uses binary floating point.                   *)
(***************************************************************************)
EXTENDS Integers, Sequences, FiniteSets, TLC

VARIABLES
    phase,          \* position of the function-level run: input/matched/filtered
    notice,         \* the RawNotice handed to the matcher and the filter
    lots,           \* result of match_winners_to_lots(notice)
    min_value_eur,  \* threshold argument of filter_high_value_results
    high_value,     \* result of filter_high_value_results([notice], min_value_eur)
    batch,          \* the notices fetch_all_contracts hands to one scan
    arg_data,       \* extract_from_dict: data
    arg_langs,      \* the preferred-language list of the extract_from_dict called
    resolved,       \* result of extract_from_dict(data)
    arg_amount,     \* convert_to_eur: amount
    arg_currency,   \* convert_to_eur: currency
    converted,      \* result of convert_to_eur(amount, currency)
    upstream,       \* the search API: how many notices match, and their dates
    fpc,            \* position of fetch_all_contracts
    page,           \* fetch_all_contracts: page
    all_notices,    \* fetch_all_contracts: all_notices
    response,       \* fetch_all_contracts: the outcome of the last requests.post
    requested,      \* history: the page numbers requested so far
    fetched,        \* the list fetch_all_contracts returned
    is_running,     \* TEDTelegramBot.is_running
    notified,       \* TEDTelegramBot.notified: publication id -> time of the alert
    now,            \* datetime.now(), in seconds since the start
    ticks,          \* number of clock advances so far
    mon,            \* position of the monitoring thread in _monitoring_loop
    wake_at,        \* end of the monitoring thread's time.sleep(600)
    web,            \* position of the webhook thread
    cmds,           \* number of commands the webhook thread has handled
    sc,             \* per thread: the locals of its _scan call
    alerts,         \* history: per publication id, the times of its last two
                    \* _notify calls since notified was last cleared
    last_send,      \* history: the bot.send_message calls of the last _send
    listed          \* the publication numbers in the last reply of /test

pureVars == <<phase, notice, lots, min_value_eur, high_value>>
fnVars == <<batch, arg_data, arg_langs, resolved, arg_amount, arg_currency, converted>>
fetchVars == <<upstream, fpc, page, all_notices, response, requested, fetched>>
botVars == <<is_running, notified, now, ticks, mon, wake_at, web, cmds, sc, alerts,
            last_send, listed>>
vars == <<phase, notice, lots, min_value_eur, high_value,
          batch, arg_data, arg_langs, resolved, arg_amount, arg_currency, converted,
          upstream, fpc, page, all_notices, response, requested, fetched,
          is_running, notified, now, ticks, mon, wake_at, web, cmds, sc, alerts,
          last_send, listed>>

-----------------------------------------------------------------------------
(* Bounds *)

MaxLen == 3         \* longest array of a lot-related field
MaxTender == 2      \* longest tender-value array of a filter input
MaxTicks == 2       \* clock advances in a run of the bot
MaxCommands == 2    \* commands handled by the webhook thread in a run
MaxFullPages == 2   \* full pages of the upstreams that end within max_pages
MaxBatch == 3       \* notices in the batch of one scan
MaxEntries == 2     \* entries of a localized mapping

-----------------------------------------------------------------------------
(* JSON / Python values *)

Null == [t |-> "null", s |-> "", n |-> 0]
Str(x) == [t |-> "str", s |-> x, n |-> 0]
Num(x) == [t |-> "num", s |-> "", n |-> x]
\* a mapping met where a scalar is expected (contents not inspected)
DictElem == [t |-> "dict", s |-> "", n |-> 0]

Absent == [k |-> "absent", v |-> <<>>, d |-> <<>>]
Scalar(e) == [k |-> "scalar", v |-> <<e>>, d |-> <<>>]
List(es) == [k |-> "list", v |-> es, d |-> <<>>]
Dict(entries) == [k |-> "dict", v |-> <<>>, d |-> entries]
\* one entry of a localized mapping: its value is a scalar or a list
Entry(lang, val) == [lang |-> lang, val |-> [k |-> val.k, v |-> val.v]]

\* Python truthiness of a scalar: None, "" and 0 are falsy
Truthy(e) == \/ e.t = "dict"
             \/ e.t = "str" /\ e.s # ""
             \/ e.t = "num" /\ e.n # 0

\* truthiness of a mapping entry's value (an empty list is falsy)
TruthyVal(val) == IF val.k = "list" THEN val.v # <<>> ELSE Truthy(val.v[1])

-----------------------------------------------------------------------------
(* match_winners_to_lots and its helpers *)

\* to_list: None -> [], a list -> itself, anything else -> [data]
to_list(data) ==
    IF data.k = "absent" THEN <<>>
    ELSE IF data.k = "list" THEN data.v
    ELSE IF data.k = "dict" THEN <<DictElem>>
    ELSE <<data.v[1]>>

\* Unwrap leaving a list as it is
Unwrap_Keep(val) ==
    IF val.k = "list" THEN [raised |-> FALSE, val |-> List(val.v)]
    ELSE IF val.v[1].t = "null" THEN [raised |-> FALSE, val |-> Absent]
    ELSE [raised |-> FALSE, val |-> Scalar(val.v[1])]

\* the value a mapping entry resolves to: val[0] if a list else val.
\* [][0] raises IndexError.
Unwrap(val) ==
    IF val.k = "list"
    THEN IF val.v = <<>> THEN [raised |-> TRUE, val |-> Absent]
         ELSE [raised |-> FALSE, val |-> Scalar(val.v[1])]
    ELSE IF val.v[1].t = "null" THEN [raised |-> FALSE, val |-> Absent]
    ELSE [raised |-> FALSE, val |-> Scalar(val.v[1])]

\* index of the first language of langs that is a key of d with a truthy
\* value, 0 if none
RECURSIVE FirstLang(_, _, _)
FirstLang(d, langs, i) ==
    IF i > Len(langs) THEN 0
    ELSE IF \E j \in 1..Len(d) : d[j].lang = langs[i] /\ TruthyVal(d[j].val)
         THEN i
         ELSE FirstLang(d, langs, i + 1)

\* extract_from_dict with the preferred-language list langs; the result is
\* [raised, val]: val is the Python value returned (Absent for None)
extract_from_dict(data, langs) ==
    IF data.k # "dict" THEN [raised |-> FALSE, val |-> data]
    ELSE LET i == FirstLang(data.d, langs, 1)
         IN IF i # 0
            THEN LET j == CHOOSE j \in 1..Len(data.d) : data.d[j].lang = langs[i]
                 IN Unwrap(data.d[j].val)
            ELSE IF data.d = <<>> THEN [raised |-> FALSE, val |-> Absent]
                 ELSE Unwrap(data.d[1].val)

MatcherLangs == <<"eng", "swe", "deu", "fra", "spa">>

\* winner-name / winner-city: a mapping is resolved first, then to_list
LocalizedList(raw) ==
    IF raw.k = "dict"
    THEN LET r == extract_from_dict(raw, MatcherLangs)
         IN [raised |-> r.raised, val |-> to_list(r.val)]
    ELSE [raised |-> FALSE, val |-> to_list(raw)]

Max(a, b) == IF a >= b THEN a ELSE b

\* num_lots = max(len(lot_ids), len(tender_values), 1)
num_lots(lot_ids, tender_values) == Max(Max(Len(lot_ids), Len(tender_values)), 1)

\* CurrencyAt without the single-value broadcast
CurrencyAt_NoBroadcast(curs, i) ==
    IF i < Len(curs) THEN curs[i + 1] ELSE Str("EUR")

\* tender_cur / est_cur at 0-based position i
CurrencyAt(curs, i) ==
    IF i < Len(curs) THEN curs[i + 1]
    ELSE IF Len(curs) = 1 THEN curs[1]
    ELSE Str("EUR")

\* WinnerAt using the position whenever it is in range
WinnerAt_Positional(ws, n, i) ==
    IF i < Len(ws) THEN ws[i + 1]
    ELSE IF Len(ws) = 1 THEN ws[1]
    ELSE Str("N/A")

\* WinnerAt repeating the first value whatever the length
WinnerAt_First(ws, n, i) ==
    IF Len(ws) >= 1 THEN ws[1] ELSE Str("N/A")

\* winner_name / winner_country / winner_city at 0-based position i
WinnerAt(ws, n, i) ==
    IF Len(ws) = n /\ i < Len(ws) THEN ws[i + 1]
    ELSE IF Len(ws) = 1 THEN ws[1]
    ELSE Str("N/A")

\* f"LOT-{i+1}"
\* LotLabel numbering the lots from 0
LotLabel_ZeroBased(i) == "LOT-" \o ToString(i)

LotLabel(i) == "LOT-" \o ToString(i + 1)

match_winners_to_lots(nt) ==
    LET lot_ids == to_list(nt.identifier_lot)
        lot_est_values == to_list(nt.estimated_value_lot)
        lot_est_currencies == to_list(nt.estimated_value_cur_lot)
        names == LocalizedList(nt.winner_name)
        winner_countries == to_list(nt.winner_country)
        cities == LocalizedList(nt.winner_city)
        tender_values == to_list(nt.tender_value)
        tender_currencies == to_list(nt.tender_value_cur)
        n == num_lots(lot_ids, tender_values)
        lot(i) ==
            [lot_id |-> IF i < Len(lot_ids) THEN lot_ids[i + 1] ELSE Str(LotLabel(i)),
             estimated_value |-> IF i < Len(lot_est_values)
                                 THEN lot_est_values[i + 1] ELSE Null,
             estimated_currency |-> CurrencyAt(lot_est_currencies, i),
             tender_value |-> IF i < Len(tender_values)
                              THEN tender_values[i + 1] ELSE Null,
             tender_currency |-> CurrencyAt(tender_currencies, i),
             winner_name |-> WinnerAt(names.val, n, i),
             winner_country |-> WinnerAt(winner_countries, n, i),
             winner_city |-> WinnerAt(cities.val, n, i)]
    IN IF names.raised \/ cities.raised
       THEN [raised |-> TRUE, value |-> <<>>]
       ELSE [raised |-> FALSE, value |-> [i \in 1..n |-> lot(i - 1)]]

-----------------------------------------------------------------------------
(* Inputs of the matcher *)

\* <<prefix1, ..., prefixn>>: one distinguishable value per position
Tagged(prefix, n) == [i \in 1..n |-> Str(prefix \o ToString(i))]
Numbered(base, n) == [i \in 1..n |-> Num(base + i)]

StrShapes(prefix) ==
    {Absent, Scalar(Str(prefix \o "1"))}
        \cup {List(Tagged(prefix, n)) : n \in 2..MaxLen}

NumShapes(base) ==
    {Absent, Scalar(Num(base + 1))}
        \cup {List(Numbered(base, n)) : n \in 2..MaxLen}

\* localized mappings of a text field
MappingShapes(prefix) ==
    {Dict(<<>>),
     Dict(<<Entry("eng", Scalar(Str(prefix \o "en")))>>),
     Dict(<<Entry("pol", List(Tagged(prefix, 2))), Entry("swe", Scalar(Str(prefix \o "sv")))>>),
     Dict(<<Entry("pol", List(Tagged(prefix, 2)))>>),
     Dict(<<Entry("eng", Scalar(Str(""))), Entry("fra", List(<<Str(prefix \o "fr")>>))>>),
     Dict(<<Entry("pol", List(<<>>))>>)}

TextShapes(prefix) ==
    StrShapes(prefix) \cup MappingShapes(prefix)
        \cup {List(<<>>), List(Tagged(prefix, 1))}

BlankNotice ==
    [form_type |-> Scalar(Str("result")),
     publication_number |-> Scalar(Str("P1")),
     buyer_name |-> Absent, buyer_city |-> Absent, notice_title |-> Absent,
     identifier_lot |-> Absent, estimated_value_lot |-> Absent,
     estimated_value_cur_lot |-> Absent, winner_name |-> Absent,
     winner_country |-> Absent, winner_city |-> Absent,
     tender_value |-> Absent, tender_value_cur |-> Absent]

\* lot identifiers, both value arrays, winner names and tender currencies
MatchNoticesA ==
    {[BlankNotice EXCEPT !.identifier_lot = a, !.estimated_value_lot = b,
                         !.tender_value = c, !.winner_name = w,
                         !.tender_value_cur = u] :
        a \in StrShapes("L"), b \in NumShapes(100), c \in NumShapes(200),
        w \in TextShapes("W"), u \in StrShapes("C")}

\* lot identifiers, tender values, estimated currencies, countries, cities
MatchNoticesB ==
    {[BlankNotice EXCEPT !.identifier_lot = a, !.tender_value = c,
                         !.estimated_value_cur_lot = u, !.winner_country = w,
                         !.winner_city = x] :
        a \in StrShapes("L"), c \in NumShapes(200), u \in StrShapes("E"),
        w \in StrShapes("K") \cup {List(<<>>)}, x \in TextShapes("Y")}

OneOf(e) == {Absent, Scalar(e)}

\* no arrays at all: every field absent, a scalar or a localized mapping
MatchNoticesC ==
    {[BlankNotice EXCEPT !.identifier_lot = a, !.estimated_value_lot = b,
                         !.estimated_value_cur_lot = c, !.tender_value = d,
                         !.tender_value_cur = e, !.winner_name = f,
                         !.winner_country = g, !.winner_city = h] :
        a \in OneOf(Str("L1")), b \in OneOf(Num(101)), c \in OneOf(Str("SEK")),
        d \in OneOf(Num(201)), e \in OneOf(Str("USD")),
        f \in OneOf(Str("W1")) \cup MappingShapes("W"),
        g \in OneOf(Str("K1")),
        h \in OneOf(Str("Y1")) \cup MappingShapes("Y")}

-----------------------------------------------------------------------------
(* convert_to_eur *)

RateScale == 10000      \* a rate r of the table is stored as r * RateScale

\* self.rates
rates ==
    [c \in {"EUR", "USD", "GBP", "CHF", "SEK", "DKK", "NOK", "PLN", "CZK",
            "HUF", "RON", "BGN", "HRK"} |->
        CASE c = "EUR" -> 10000 [] c = "USD" -> 9200 [] c = "GBP" -> 11700
          [] c = "CHF" -> 10600 [] c = "SEK" -> 880 [] c = "DKK" -> 1340
          [] c = "NOK" -> 860 [] c = "PLN" -> 2300 [] c = "CZK" -> 400
          [] c = "HUF" -> 25 [] c = "RON" -> 2000 [] c = "BGN" -> 5100
          [] c = "HRK" -> 1300]

\* str.upper() of one character
UpperChar(c) ==
    CASE c = "a" -> "A" [] c = "b" -> "B" [] c = "c" -> "C" [] c = "d" -> "D"
      [] c = "e" -> "E" [] c = "f" -> "F" [] c = "g" -> "G" [] c = "h" -> "H"
      [] c = "i" -> "I" [] c = "j" -> "J" [] c = "k" -> "K" [] c = "l" -> "L"
      [] c = "m" -> "M" [] c = "n" -> "N" [] c = "o" -> "O" [] c = "p" -> "P"
      [] c = "q" -> "Q" [] c = "r" -> "R" [] c = "s" -> "S" [] c = "t" -> "T"
      [] c = "u" -> "U" [] c = "v" -> "V" [] c = "w" -> "W" [] c = "x" -> "X"
      [] c = "y" -> "Y" [] c = "z" -> "Z" [] OTHER -> c

\* str.upper() leaving the string as it is
Upper_Same(s) == s

\* str.upper()
RECURSIVE Upper(_)
Upper(s) ==
    IF Len(s) = 0 THEN ""
    ELSE UpperChar(SubSeq(s, 1, 1)) \o Upper(SubSeq(s, 2, Len(s)))

\* rates.get(code, 1.0)
RateOf(code) == IF code \in DOMAIN rates THEN rates[code] ELSE RateScale

\* convert_to_eur(amount, currency): [raised, value], value scaled by
\* RateScale.  A truthy currency that is not a string has no upper().
convert_to_eur(amount, currency) ==
    IF ~Truthy(currency) \/ currency = Str("EUR")
    THEN [raised |-> FALSE, value |-> amount * RateScale]
    ELSE IF currency.t # "str"
         THEN [raised |-> TRUE, value |-> 0]
         ELSE [raised |-> FALSE, value |-> amount * RateOf(Upper(currency.s))]

-----------------------------------------------------------------------------
(* filter_high_value_results *)

DefaultMinValueEur == 15000     \* min_value_eur: 15_000_000 EUR
TestMinValueEur == 5000         \* /test: 5_000_000 EUR

FilterLangs == <<"eng", "swe", "deu", "fra", "spa", "ita", "nld", "pol", "ces", "hun">>

\* notice.get(key, "N/A")
GetOrNA(field) == IF field.k = "absent" THEN Scalar(Str("N/A")) ELSE field

\* the predicate as a case-sensitive substring test
is_result_notice_Substring(nt) ==
    /\ nt.form_type.k = "scalar"
    /\ \E i \in 1..(Len(nt.form_type.v[1].s) - 5) :
            SubSeq(nt.form_type.v[1].s, i, i + 5) = "result"

\* form_type == "result"
is_result_notice(nt) == nt.form_type = Scalar(Str("result"))

\* float(tender_value) succeeds on a number only
FloatOk(e) == e.t = "num"

\* the per-lot loop over lots[i..]: [raised, total_eur, converted_lots]
RECURSIVE ConvertLots(_, _, _, _)
ConvertLots(ls, i, total_eur, converted_lots) ==
    IF i > Len(ls)
    THEN [raised |-> FALSE, total_eur |-> total_eur, converted_lots |-> converted_lots]
    ELSE LET lot == ls[i]
             tender_value == lot.tender_value
             tender_currency == lot.tender_currency
         IN IF ~Truthy(tender_value) \/ ~FloatOk(tender_value)
            THEN ConvertLots(ls, i + 1, total_eur, converted_lots)
            ELSE LET c == convert_to_eur(tender_value.n, tender_currency)
                 IN IF c.raised
                    THEN [raised |-> TRUE, total_eur |-> 0, converted_lots |-> <<>>]
                    ELSE ConvertLots(ls, i + 1, total_eur + c.value,
                            Append(converted_lots,
                                [lot_id |-> lot.lot_id,
                                 winner_name |-> lot.winner_name,
                                 winner_country |-> lot.winner_country,
                                 winner_city |-> lot.winner_city,
                                 tender_value |-> tender_value.n,
                                 tender_currency |-> tender_currency,
                                 eur_value |-> c.value]))

\* the threshold test with a strict comparison
MeetsThreshold_Strict(total_eur, min_value) == total_eur > min_value * RateScale

\* total_eur >= min_value_eur
MeetsThreshold(total_eur, min_value) == total_eur >= min_value * RateScale

\* the try body of the loop over result_notices: [raised, value], value
\* being what the notice appends to high_value (<<>> when it is below the
\* threshold or has no lot)
ProcessNotice(nt, min_value) ==
    LET m == match_winners_to_lots(nt)
        r == ConvertLots(m.value, 1, 0, <<>>)
        buyer_name == extract_from_dict(GetOrNA(nt.buyer_name), FilterLangs)
        buyer_city == extract_from_dict(GetOrNA(nt.buyer_city), FilterLangs)
        title == extract_from_dict(GetOrNA(nt.notice_title), FilterLangs)
    IN IF m.raised \/ r.raised THEN [raised |-> TRUE, value |-> <<>>]
       ELSE IF m.value = <<>> \/ ~MeetsThreshold(r.total_eur, min_value)
            THEN [raised |-> FALSE, value |-> <<>>]
       ELSE IF buyer_name.raised \/ buyer_city.raised \/ title.raised
            THEN [raised |-> TRUE, value |-> <<>>]
       ELSE [raised |-> FALSE,
             value |-> <<[publication_number |-> GetOrNA(nt.publication_number),
                          form_type |-> "result",
                          buyer_name |-> buyer_name.val,
                          buyer_city |-> buyer_city.val,
                          title |-> title.val,
                          total_eur |-> r.total_eur,
                          lots |-> r.converted_lots]>>]

\* the loop ending at the first notice whose processing raises
RECURSIVE FilterFrom_Abort(_, _, _)
FilterFrom_Abort(ns, i, min_value) ==
    IF i > Len(ns) THEN <<>>
    ELSE IF ~is_result_notice(ns[i]) THEN FilterFrom_Abort(ns, i + 1, min_value)
    ELSE LET r == ProcessNotice(ns[i], min_value)
         IN IF r.raised THEN <<>>
            ELSE r.value \o FilterFrom_Abort(ns, i + 1, min_value)

\* the loops over notices from position i on: a notice that is not a
\* result notice is left out, one whose processing raises is skipped
\* (except Exception: continue)
RECURSIVE FilterFrom(_, _, _)
FilterFrom(ns, i, min_value) ==
    IF i > Len(ns) THEN <<>>
    ELSE IF ~is_result_notice(ns[i]) THEN FilterFrom(ns, i + 1, min_value)
    ELSE LET r == ProcessNotice(ns[i], min_value)
         IN IF r.raised THEN FilterFrom(ns, i + 1, min_value)
            ELSE r.value \o FilterFrom(ns, i + 1, min_value)

filter_high_value_results(ns, min_value) == FilterFrom(ns, 1, min_value)

-----------------------------------------------------------------------------
(* Inputs of the filter *)

TenderElems ==
    {Null, Num(0), Num(4000), Num(5000), Num(6000), Num(10000), Num(14999),
     Num(15000), Str("n/a")}

RECURSIVE SeqsUpTo(_, _)
SeqsUpTo(S, n) ==
    IF n = 0 THEN {<<>>}
    ELSE LET shorter == SeqsUpTo(S, n - 1)
         IN shorter \cup {Append(q, e) : q \in {x \in shorter : Len(x) = n - 1}, e \in S}

TenderShapes ==
    {Absent} \cup {Scalar(e) : e \in TenderElems \ {Null}}
        \cup {List(q) : q \in SeqsUpTo(TenderElems, MaxTender)}

FormTypes ==
    {Absent, Scalar(Str("result")), Scalar(Str("contract-result-notice")),
     Scalar(Str("planning")), Scalar(Str("Result"))}

FilterCurrencies ==
    {Absent, Scalar(Str("EUR")), Scalar(Str("USD")), Scalar(Str("usd")),
     Scalar(Str("XXX")), List(<<Str("GBP"), Str("SEK")>>)}

FilterNotices ==
    {[BlankNotice EXCEPT !.form_type = f, !.tender_value = c,
                         !.tender_value_cur = u] :
        f \in FormTypes, c \in TenderShapes, u \in FilterCurrencies}

Notices == MatchNoticesA \cup MatchNoticesB \cup MatchNoticesC \cup FilterNotices

-----------------------------------------------------------------------------
(* TEDTelegramBot: the scan, the monitoring loop and the command handlers *)

Threads == {"monitor", "webhook"}

Expiry == 86400         \* age.total_seconds() < 86400
ScanInterval == 600     \* time.sleep(600)

\* the clock advances by one scan interval, or by what is left of the
\* 24 hours after it
TickSteps == {ScanInterval, Expiry - ScanInterval}

\* the notices the upstream search can return
NoticeOf(pub, values) ==
    [BlankNotice EXCEPT !.publication_number = Scalar(Str(pub)),
                        !.tender_value = List(values)]
\* N1 meets the 15,000,000 threshold, N3 only the 5,000,000 one of /test
N1 == NoticeOf("P1", <<Num(10000), Num(6000)>>)
N3 == NoticeOf("P3", <<Num(6000)>>)
PubIds == {"P1", "P2", "P3", "P4"}

\* what fetch_all_contracts can return to one scan: nothing, both notices,
\* or N1 twice (the same notice on two pages)
Feeds == {<<>>, <<N3, N1>>, <<N1, N1>>}

NotNotified == -1       \* the publication id is not a key of notified

\* str(contract["publication_number"]) of each high-value notice
PubNums(hvs) == [i \in 1..Len(hvs) |-> hvs[i].publication_number.v[1].s]

\* the comparison with a window that also closes at exactly 24 hours
WithinExpiry_Inclusive(age) == age <= Expiry

\* age.total_seconds() < 86400
WithinExpiry(age) == age < Expiry

\* _send(message): one bot.send_message call with parse_mode='Markdown';
\* ok tells whether the call returned or raised.  A raised exception is
\* logged and swallowed: nothing else is sent, stored or raised.
Send(ok) == <<[parse_mode |-> "Markdown", ok |-> ok]>>

\* the last two entries of a sequence
LastTwo(q) == IF Len(q) <= 2 THEN q ELSE SubSeq(q, Len(q) - 1, Len(q))

IdleScan == [pc |-> "idle", high_value |-> <<>>, i |-> 0, new_count |-> 0]

\* the contract the loop of _scan is at
Current(t) == sc[t].high_value[sc[t].i]

\* the for loop of _scan moves to its next contract, or _scan returns
Advance(t, count) ==
    IF sc[t].i < Len(sc[t].high_value)
    THEN [sc EXCEPT ![t].pc = "check", ![t].i = @ + 1, ![t].new_count = count]
    ELSE [sc EXCEPT ![t].pc = "return", ![t].new_count = count]

NoLots == [raised |-> FALSE, value |-> <<>>]

\* /test has not listed anything
NotListed == <<>>

\* test_contracts[:5]
FirstFive(q) == IF Len(q) <= 5 THEN q ELSE SubSeq(q, 1, 5)

\* the function has not been called yet
NotCalled == [raised |-> FALSE, called |-> FALSE]

\* no request has been made yet
NoResponse == [raised |-> FALSE, status_code |-> 0, notices |-> <<>>, total |-> 0]

\* the variables of the function-level runs, unused by the bot
PureAtRest ==
    /\ phase = "bot"
    /\ notice = BlankNotice
    /\ lots = NoLots
    /\ min_value_eur = DefaultMinValueEur
    /\ high_value = <<>>

\* the variables of the calls of extract_from_dict and convert_to_eur and
\* of the scan of one batch, unused elsewhere
FnAtRest ==
    /\ batch = <<>>
    /\ arg_data = Absent
    /\ arg_langs = MatcherLangs
    /\ resolved = NotCalled
    /\ arg_amount = 0
    /\ arg_currency = Null
    /\ converted = NotCalled

\* no fetch is in progress
FetchAtRest ==
    /\ upstream = [total |-> 0, dates |-> <<>>]
    /\ fpc = "idle"
    /\ page = 1
    /\ all_notices = <<>>
    /\ response = NoResponse
    /\ requested = <<>>
    /\ fetched = <<>>

\* the bot right after main() has started the monitoring thread
BotStarted ==
    /\ is_running = TRUE
    /\ notified = [p \in PubIds |-> NotNotified]
    /\ now = 0
    /\ ticks = 0
    /\ mon = "loop"
    /\ wake_at = 0
    /\ web = "idle"
    /\ cmds = 0
    /\ sc = [t \in Threads |-> IdleScan]
    /\ alerts = [p \in PubIds |-> <<>>]
    /\ last_send = <<>>
    /\ listed = NotListed

Init == PureAtRest /\ FnAtRest /\ FetchAtRest /\ BotStarted

\* time passes
Tick ==
    /\ ticks < MaxTicks
    /\ \E d \in TickSteps : now' = now + d
    /\ ticks' = ticks + 1
    /\ UNCHANGED <<is_running, notified, mon, wake_at, web, cmds, sc, alerts, last_send, listed>>

\* _scan up to the for loop, fetch_all_contracts having returned ns:
\* filter, the two early returns
ScanFetchOf(t, ns) ==
    /\ sc[t].pc = "fetch"
    /\ LET hv == IF ns = <<>> THEN <<>>
                 ELSE PubNums(filter_high_value_results(ns, DefaultMinValueEur))
       IN sc' = [sc EXCEPT ![t] =
                    IF hv = <<>>
                    THEN [pc |-> "return", high_value |-> <<>>, i |-> 0, new_count |-> 0]
                    ELSE [pc |-> "check", high_value |-> hv, i |-> 1, new_count |-> 0]]
    /\ UNCHANGED <<is_running, notified, now, ticks, mon, wake_at, web, cmds, alerts, last_send, listed>>

\* _scan up to the for loop, whatever the fetch returns
ScanFetch(t) == \E ns \in Feeds : ScanFetchOf(t, ns)

\* if pub_num in self.notified
ScanCheck(t) ==
    /\ sc[t].pc = "check"
    /\ sc' = [sc EXCEPT ![t].pc =
                IF notified[Current(t)] # NotNotified THEN "age" ELSE "notify"]
    /\ UNCHANGED <<is_running, notified, now, ticks, mon, wake_at, web, cmds, alerts, last_send, listed>>

\* age = datetime.now() - self.notified[pub_num]; a key removed since the
\* membership test raises KeyError: _scan reports the error and returns 0
ScanAge(t) ==
    /\ sc[t].pc = "age"
    /\ IF notified[Current(t)] = NotNotified
       THEN /\ sc' = [sc EXCEPT ![t].pc = "return", ![t].new_count = 0]
            /\ \E ok \in BOOLEAN : last_send' = Send(ok)
       ELSE /\ sc' = IF WithinExpiry(now - notified[Current(t)])
                     THEN Advance(t, sc[t].new_count)
                     ELSE [sc EXCEPT ![t].pc = "notify"]
            /\ UNCHANGED last_send
    /\ UNCHANGED <<is_running, notified, now, ticks, mon, wake_at, web, cmds, alerts, listed>>

\* self._notify(contract): the message is built (the minimal one if building
\* the full one raised) and handed to _send once; nothing is raised
ScanNotify(t) ==
    /\ sc[t].pc = "notify"
    /\ alerts' = [alerts EXCEPT ![Current(t)] = LastTwo(Append(@, now))]
    /\ \E ok \in BOOLEAN : last_send' = Send(ok)
    /\ sc' = [sc EXCEPT ![t].pc = "mark"]
    /\ UNCHANGED <<is_running, notified, now, ticks, mon, wake_at, web, cmds, listed>>

\* ScanMark recording the id, and counting it, only when the message of
\* the alert was delivered
ScanMark_IfDelivered(t) ==
    /\ sc[t].pc = "mark"
    /\ notified' = IF last_send[1].ok
                   THEN [notified EXCEPT ![Current(t)] = now]
                   ELSE notified
    /\ sc' = Advance(t, IF last_send[1].ok THEN sc[t].new_count + 1
                                           ELSE sc[t].new_count)
    /\ UNCHANGED <<is_running, now, ticks, mon, wake_at, web, cmds, alerts, last_send, listed>>

\* self.notified[pub_num] = datetime.now(); new_count += 1
ScanMark(t) ==
    /\ sc[t].pc = "mark"
    /\ notified' = [notified EXCEPT ![Current(t)] = now]
    /\ sc' = Advance(t, sc[t].new_count + 1)
    /\ UNCHANGED <<is_running, now, ticks, mon, wake_at, web, cmds, alerts, last_send, listed>>

\* the loop condition ignoring the flag
KeepsLooping_Always == TRUE

\* while self.is_running
KeepsLooping == is_running

\* while self.is_running: the loop starts a scan or ends
MonitorLoop ==
    /\ mon = "loop"
    /\ IF KeepsLooping
       THEN mon' = "scan" /\ sc' = [sc EXCEPT !["monitor"].pc = "fetch"]
       ELSE mon' = "exit" /\ UNCHANGED sc
    /\ UNCHANGED <<is_running, notified, now, ticks, wake_at, web, cmds, alerts, last_send, listed>>

\* _scan has returned to the loop: if self.is_running: time.sleep(600)
MonitorAfterScan ==
    /\ mon = "scan"
    /\ sc["monitor"].pc = "return"
    /\ sc' = [sc EXCEPT !["monitor"] = IdleScan]
    /\ IF is_running
       THEN mon' = "sleep" /\ wake_at' = now + ScanInterval
       ELSE mon' = "loop" /\ UNCHANGED wake_at
    /\ UNCHANGED <<is_running, notified, now, ticks, web, cmds, alerts, last_send, listed>>

\* time.sleep(600) is over
MonitorWake ==
    /\ mon = "sleep"
    /\ now >= wake_at
    /\ mon' = "loop"
    /\ UNCHANGED <<is_running, notified, now, ticks, wake_at, web, cmds, sc, alerts, last_send, listed>>

\* /scan: run_scan calls self._scan on the webhook thread
CmdScan ==
    /\ web = "idle"
    /\ cmds < MaxCommands
    /\ web' = "scan"
    /\ cmds' = cmds + 1
    /\ sc' = [sc EXCEPT !["webhook"].pc = "fetch"]
    /\ UNCHANGED <<is_running, notified, now, ticks, mon, wake_at, alerts, last_send, listed>>

\* run_scan replies with the count _scan returned
CmdScanReply ==
    /\ web = "scan"
    /\ sc["webhook"].pc = "return"
    /\ web' = "idle"
    /\ sc' = [sc EXCEPT !["webhook"] = IdleScan]
    /\ UNCHANGED <<is_running, notified, now, ticks, mon, wake_at, cmds, alerts, last_send, listed>>

\* CmdTest recording the notices it lists as alerted
CmdTest_Recording ==
    /\ web = "idle"
    /\ cmds < MaxCommands
    /\ cmds' = cmds + 1
    /\ \E ns \in Feeds :
        LET found == FirstFive(PubNums(filter_high_value_results(ns, TestMinValueEur)))
        IN /\ listed' = found
           /\ notified' = [p \in PubIds |->
                            IF \E i \in 1..Len(found) : found[i] = p
                            THEN now ELSE notified[p]]
    /\ UNCHANGED <<is_running, now, ticks, mon, wake_at, web, sc, alerts, last_send>>

\* /test: test_scan fetches, filters with the 5,000,000 threshold and
\* replies to the message with the first five publication numbers; it
\* calls neither _scan nor _notify nor _send
CmdTest ==
    /\ web = "idle"
    /\ cmds < MaxCommands
    /\ cmds' = cmds + 1
    /\ \E ns \in Feeds :
        listed' = FirstFive(PubNums(filter_high_value_results(ns, TestMinValueEur)))
    /\ UNCHANGED <<is_running, notified, now, ticks, mon, wake_at, web, sc, alerts, last_send>>

\* /clear: self.notified.clear()
CmdClear ==
    /\ web = "idle"
    /\ cmds < MaxCommands
    /\ cmds' = cmds + 1
    /\ notified' = [p \in PubIds |-> NotNotified]
    /\ alerts' = [p \in PubIds |-> <<>>]
    /\ UNCHANGED <<is_running, now, ticks, mon, wake_at, web, sc, last_send, listed>>

\* /stop
CmdStop ==
    /\ web = "idle"
    /\ cmds < MaxCommands
    /\ cmds' = cmds + 1
    /\ is_running' = FALSE
    /\ UNCHANGED <<notified, now, ticks, mon, wake_at, web, sc, alerts, last_send, listed>>

\* /resume
CmdResume ==
    /\ web = "idle"
    /\ cmds < MaxCommands
    /\ cmds' = cmds + 1
    /\ is_running' = TRUE
    /\ UNCHANGED <<notified, now, ticks, mon, wake_at, web, sc, alerts, last_send, listed>>

ScanStep(t) ==
    ScanFetch(t) \/ ScanCheck(t) \/ ScanAge(t) \/ ScanNotify(t) \/ ScanMark(t)

\* no _scan call is in progress on thread t
NotScanning(t) == sc[t].pc = "idle"

\* the two threads run freely (Flask serves the webhook on its own thread)
Next ==
    \/ (Tick /\ UNCHANGED <<pureVars, fnVars, fetchVars>>)
    \/ (\E t \in Threads : ScanStep(t) /\ UNCHANGED <<pureVars, fnVars, fetchVars>>)
    \/ (MonitorLoop /\ UNCHANGED <<pureVars, fnVars, fetchVars>>)
    \/ (MonitorAfterScan /\ UNCHANGED <<pureVars, fnVars, fetchVars>>)
    \/ (MonitorWake /\ UNCHANGED <<pureVars, fnVars, fetchVars>>)
    \/ (CmdScan /\ UNCHANGED <<pureVars, fnVars, fetchVars>>)
    \/ (CmdScanReply /\ UNCHANGED <<pureVars, fnVars, fetchVars>>)
    \/ (CmdTest /\ UNCHANGED <<pureVars, fnVars, fetchVars>>)
    \/ (CmdClear /\ UNCHANGED <<pureVars, fnVars, fetchVars>>)
    \/ (CmdStop /\ UNCHANGED <<pureVars, fnVars, fetchVars>>)
    \/ (CmdResume /\ UNCHANGED <<pureVars, fnVars, fetchVars>>)

Spec == Init /\ [][Next]_vars

\* the host serializes the scans: a scan starts, and the dedup map is
\* cleared, only while no other scan is in progress
NextSeq ==
    \/ (Tick /\ UNCHANGED <<pureVars, fnVars, fetchVars>>)
    \/ (\E t \in Threads : ScanStep(t) /\ UNCHANGED <<pureVars, fnVars, fetchVars>>)
    \/ (MonitorLoop /\ NotScanning("webhook") /\ UNCHANGED <<pureVars, fnVars, fetchVars>>)
    \/ (MonitorAfterScan /\ UNCHANGED <<pureVars, fnVars, fetchVars>>)
    \/ (MonitorWake /\ UNCHANGED <<pureVars, fnVars, fetchVars>>)
    \/ (CmdScan /\ NotScanning("monitor") /\ UNCHANGED <<pureVars, fnVars, fetchVars>>)
    \/ (CmdScanReply /\ UNCHANGED <<pureVars, fnVars, fetchVars>>)
    \/ (CmdTest /\ UNCHANGED <<pureVars, fnVars, fetchVars>>)
    \/ (CmdClear /\ NotScanning("monitor") /\ UNCHANGED <<pureVars, fnVars, fetchVars>>)
    \/ (CmdStop /\ UNCHANGED <<pureVars, fnVars, fetchVars>>)
    \/ (CmdResume /\ UNCHANGED <<pureVars, fnVars, fetchVars>>)

SpecSeq == Init /\ [][NextSeq]_vars

\* both threads keep running whenever they can take a step, and time
\* passes; the user is free to send a command or not
Fairness ==
    /\ WF_vars(Tick /\ UNCHANGED <<pureVars, fnVars, fetchVars>>)
    /\ WF_vars(MonitorLoop /\ NotScanning("webhook") /\ UNCHANGED <<pureVars, fnVars, fetchVars>>)
    /\ WF_vars(MonitorAfterScan /\ UNCHANGED <<pureVars, fnVars, fetchVars>>)
    /\ WF_vars(MonitorWake /\ UNCHANGED <<pureVars, fnVars, fetchVars>>)
    /\ \A t \in Threads : WF_vars(ScanStep(t) /\ UNCHANGED <<pureVars, fnVars, fetchVars>>)
    /\ WF_vars(CmdScanReply /\ UNCHANGED <<pureVars, fnVars, fetchVars>>)

\* the serialized scans under fair scheduling
SpecLive == Init /\ [][NextSeq]_vars /\ Fairness

-----------------------------------------------------------------------------
(* One batch of notices through /scan *)

\* a second notice that meets the threshold
N2 == NoticeOf("P2", <<Num(16000)>>)

\* notices whose processing raises: a currency that is not a string, a
\* winner name and a buyer name that resolve to [][0]
BadCurrency ==
    [NoticeOf("P4", <<Num(16000)>>) EXCEPT !.tender_value_cur = Scalar(Num(978))]
BadWinner ==
    [NoticeOf("P4", <<Num(16000)>>) EXCEPT
        !.winner_name = Dict(<<Entry("pol", List(<<>>))>>)]
BadBuyer ==
    [NoticeOf("P4", <<Num(16000)>>) EXCEPT
        !.buyer_name = Dict(<<Entry("pol", List(<<>>))>>)]

BatchPool == {N1, N2, N3, BadCurrency, BadWinner, BadBuyer}

Batches == SeqsUpTo(BatchPool, MaxBatch)

InitBatch ==
    /\ PureAtRest
    /\ FetchAtRest
    /\ batch \in Batches
    /\ arg_data = Absent
    /\ arg_langs = MatcherLangs
    /\ resolved = NotCalled
    /\ arg_amount = 0
    /\ arg_currency = Null
    /\ converted = NotCalled
    /\ BotStarted

\* /scan, the fetch returning the batch
NextBatch ==
    \/ (CmdScan /\ UNCHANGED <<pureVars, fnVars, fetchVars>>)
    \/ (ScanFetchOf("webhook", batch) /\ UNCHANGED <<pureVars, fnVars, fetchVars>>)
    \/ (ScanCheck("webhook") /\ UNCHANGED <<pureVars, fnVars, fetchVars>>)
    \/ (ScanAge("webhook") /\ UNCHANGED <<pureVars, fnVars, fetchVars>>)
    \/ (ScanNotify("webhook") /\ UNCHANGED <<pureVars, fnVars, fetchVars>>)
    \/ (ScanMark("webhook") /\ UNCHANGED <<pureVars, fnVars, fetchVars>>)
    \/ (CmdScanReply /\ UNCHANGED <<pureVars, fnVars, fetchVars>>)

SpecBatch == InitBatch /\ [][NextBatch]_vars

-----------------------------------------------------------------------------
(* The functions applied to one notice *)

InitPure ==
    /\ phase = "input"
    /\ notice \in Notices
    /\ lots = NoLots
    /\ min_value_eur = DefaultMinValueEur
    /\ high_value = <<>>
    /\ FnAtRest
    /\ FetchAtRest
    /\ BotStarted

MatchWinnersToLots ==
    /\ phase = "input"
    /\ phase' = "matched"
    /\ lots' = match_winners_to_lots(notice)
    /\ UNCHANGED <<notice, min_value_eur, high_value>>
    /\ UNCHANGED <<botVars, fnVars, fetchVars>>

FilterHighValueResults ==
    /\ phase = "matched"
    /\ phase' = "filtered"
    /\ \E m \in {DefaultMinValueEur, TestMinValueEur} :
        /\ min_value_eur' = m
        /\ high_value' = filter_high_value_results(<<notice>>, m)
    /\ UNCHANGED <<notice, lots>>
    /\ UNCHANGED <<botVars, fnVars, fetchVars>>

NextPure == MatchWinnersToLots \/ FilterHighValueResults

SpecPure == InitPure /\ [][NextPure]_vars

\* notices with a data-shape anomaly in a lot: a tender value that is not a
\* number (a string, a mapping) or a currency that is not a string
AnomalyTenderElems == {Num(1000), Num(15000), Num(16000), Str("n/a"), DictElem}

AnomalyCurrencies ==
    {Absent, Scalar(Str("EUR")), Scalar(Num(978)),
     List(<<Str("USD"), Str("EUR")>>), List(<<Num(978), Str("EUR")>>),
     List(<<Str("EUR"), Num(978)>>), List(<<DictElem, Str("EUR")>>)}

AnomalyNotices ==
    {[BlankNotice EXCEPT !.tender_value = List(c), !.tender_value_cur = u] :
        c \in SeqsUpTo(AnomalyTenderElems, MaxTender), u \in AnomalyCurrencies}

InitAnomaly ==
    /\ phase = "input"
    /\ notice \in AnomalyNotices
    /\ lots = NoLots
    /\ min_value_eur = DefaultMinValueEur
    /\ high_value = <<>>
    /\ FnAtRest
    /\ FetchAtRest
    /\ BotStarted

SpecAnomaly == InitAnomaly /\ [][NextPure]_vars

-----------------------------------------------------------------------------
(* convert_to_eur applied to one amount *)

Amounts == {0, 1, 100, 15000}

\* the codes of the rate table in lower case
LowerCodes ==
    {"eur", "usd", "gbp", "chf", "sek", "dkk", "nok", "pln", "czk", "huf",
     "ron", "bgn", "hrk"}

\* None, the empty string, the codes of the table in upper, lower and mixed
\* case, and codes the table does not have
CurrencyCodes ==
    {Null, Str("")}
        \cup {Str(c) : c \in DOMAIN rates \cup LowerCodes}
        \cup {Str("Usd"), Str("sEK"), Str("XXX"), Str("xxx"), Str("EURO"), Str("JPY")}

InitConvert ==
    /\ PureAtRest
    /\ FetchAtRest
    /\ BotStarted
    /\ batch = <<>>
    /\ arg_data = Absent
    /\ arg_langs = MatcherLangs
    /\ resolved = NotCalled
    /\ arg_amount \in Amounts
    /\ arg_currency \in CurrencyCodes
    /\ converted = NotCalled

\* the currency codes convert_to_eur logs a warning about: the function
\* has no logger call on any of its paths
convert_to_eur_warnings(amount, currency) == <<>>

\* the call convert_to_eur(amount, currency)
ConvertToEur ==
    /\ ~converted.called
    /\ LET r == convert_to_eur(arg_amount, arg_currency)
       IN converted' = [called |-> TRUE, raised |-> r.raised, value |-> r.value,
                        warnings |-> convert_to_eur_warnings(arg_amount, arg_currency)]
    /\ UNCHANGED <<batch, arg_data, arg_langs, resolved, arg_amount, arg_currency>>
    /\ UNCHANGED <<pureVars, botVars, fetchVars>>

NextConvert == ConvertToEur

SpecConvert == InitConvert /\ [][NextConvert]_vars

-----------------------------------------------------------------------------
(* extract_from_dict applied to one value *)

\* two languages both lists prefer, one only the filter prefers, one
\* neither prefers
ResolveLangs == {"eng", "fra", "pol", "lav"}

\* the values of a language's entry: None, "", a string, and lists of
\* zero, one and two strings
EntryValues(l) ==
    {Scalar(Null), Scalar(Str("")), Scalar(Str(l \o "1")), List(<<>>),
     List(<<Str(l \o "1")>>), List(<<Str(l \o "1"), Str(l \o "2")>>)}

Entries == UNION {{Entry(l, v) : v \in EntryValues(l)} : l \in ResolveLangs}

\* the keys of a mapping are distinct
DistinctLangs(q) == \A i, j \in 1..Len(q) : q[i].lang = q[j].lang => i = j

Mappings == {Dict(q) : q \in {x \in SeqsUpTo(Entries, MaxEntries) : DistinctLangs(x)}}

ResolveInputs ==
    Mappings \cup {Absent, Scalar(Str("plain")), Scalar(Num(7)), List(<<>>),
                   List(<<Str("a"), Str("b")>>)}

InitResolve ==
    /\ PureAtRest
    /\ FetchAtRest
    /\ BotStarted
    /\ batch = <<>>
    /\ arg_data \in ResolveInputs
    /\ arg_langs \in {MatcherLangs, FilterLangs}
    /\ resolved = NotCalled
    /\ arg_amount = 0
    /\ arg_currency = Null
    /\ converted = NotCalled

\* the call extract_from_dict(data) of either function
ExtractFromDict ==
    /\ ~resolved.called
    /\ LET r == extract_from_dict(arg_data, arg_langs)
       IN resolved' = [called |-> TRUE, raised |-> r.raised, val |-> r.val]
    /\ UNCHANGED <<batch, arg_data, arg_langs, arg_amount, arg_currency, converted>>
    /\ UNCHANGED <<pureVars, botVars, fetchVars>>

NextResolve == ExtractFromDict

SpecResolve == InitResolve /\ [][NextResolve]_vars

-----------------------------------------------------------------------------
(* fetch_all_contracts *)

limit == 50         \* limit = 50
max_pages == 10     \* max_pages = 10

\* a loop that goes on whatever the page number
WithinMaxPages_Always(p) == TRUE

\* while page <= max_pages
WithinMaxPages(p) == p <= max_pages

Today == 0          \* datetime.now().date(), in days

\* the "publication-date" of a notice
NoDate == [k |-> "none", day |-> 0]
Garbled == [k |-> "garbled", day |-> 0]
Day(d) == [k |-> "day", day |-> d]
DateShapes == {NoDate, Garbled, Day(Today), Day(Today - 1), Day(Today - 2)}

\* the notices whose date varies; every other notice is of today
DatedIds == {1, limit + 1}

\* the numbers of notices the search can match: around each multiple of
\* the page size, and more than max_pages pages hold
UpstreamTotals ==
    {k * limit + r : k \in 0..MaxFullPages, r \in {0, 1, limit - 1}}
        \cup {max_pages * limit + 1}

Upstreams == [total : UpstreamTotals, dates : [DatedIds -> DateShapes]]

Min(a, b) == IF a <= b THEN a ELSE b

NoticeAt(up, id) ==
    [id |-> id,
     publication_date |-> IF id \in DOMAIN up.dates THEN up.dates[id] ELSE Day(Today)]

\* data.get("notices", []) of the response to page p
PageOf(up, p) ==
    LET first == (p - 1) * limit
        n == Min(limit, Max(0, up.total - first))
    IN [i \in 1..n |-> NoticeAt(up, first + i)]

\* datetime.now().microsecond at the cutoff: zero or not
Microseconds == {0, 1}

\* the date test of the additional filter: a notice without a date or with
\* one that does not parse is kept; cutoff is yesterday at 00:00:00 plus
\* the microseconds of now, and a parsed date is a midnight
InDateRange(nt, us) ==
    \/ nt.publication_date.k \in {"none", "garbled"}
    \/ nt.publication_date.day > Today - 1
    \/ nt.publication_date.day = Today - 1 /\ us = 0

\* filtered_notices
KeptByDate(all, us) ==
    LET Keep(nt) == InDateRange(nt, us)
    IN SelectSeq(all, Keep)

\* the loop has ended: the additional filter runs and the function returns
FetchReturn(all) ==
    /\ fpc' = "done"
    /\ \E us \in Microseconds : fetched' = KeptByDate(all, us)

InitFetch ==
    /\ PureAtRest
    /\ FnAtRest
    /\ BotStarted
    /\ upstream \in Upstreams
    /\ fpc = "loop"
    /\ page = 1
    /\ all_notices = <<>>
    /\ response = NoResponse
    /\ requested = <<>>
    /\ fetched = <<>>

\* one iteration of the while loop whose request is answered with status 200
FetchPage ==
    /\ fpc = "loop"
    /\ WithinMaxPages(page)
    /\ LET got == PageOf(upstream, page)
           all == all_notices \o got
       IN /\ requested' = Append(requested, page)
          /\ response' = [raised |-> FALSE, status_code |-> 200, notices |-> got,
                          total |-> upstream.total]
          /\ all_notices' = all
          /\ IF got = <<>> \/ Len(got) < limit
             THEN page' = page /\ FetchReturn(all)
             ELSE /\ page' = page + 1
                  /\ IF WithinMaxPages(page + 1)
                     THEN fpc' = "loop" /\ UNCHANGED fetched
                     ELSE FetchReturn(all)
    /\ UNCHANGED upstream
    /\ UNCHANGED <<pureVars, fnVars, botVars>>

\* one iteration whose request is answered with another status: break
FetchApiError ==
    /\ fpc = "loop"
    /\ WithinMaxPages(page)
    /\ requested' = Append(requested, page)
    /\ response' = [raised |-> FALSE, status_code |-> 500, notices |-> <<>>, total |-> 0]
    /\ FetchReturn(all_notices)
    /\ UNCHANGED <<upstream, page, all_notices>>
    /\ UNCHANGED <<pureVars, fnVars, botVars>>

\* one iteration whose request raises (timeout, connection error, a body
\* that is not JSON): the outer except returns []
FetchException ==
    /\ fpc = "loop"
    /\ WithinMaxPages(page)
    /\ requested' = Append(requested, page)
    /\ response' = [raised |-> TRUE, status_code |-> 0, notices |-> <<>>, total |-> 0]
    /\ fpc' = "done"
    /\ fetched' = <<>>
    /\ UNCHANGED <<upstream, page, all_notices>>
    /\ UNCHANGED <<pureVars, fnVars, botVars>>

NextFetch == FetchPage \/ FetchApiError \/ FetchException

SpecFetch == InitFetch /\ [][NextFetch]_vars

\* the call keeps running: every request is answered, fails or times out
\* (timeout=30), and the sleep between two pages ends
SpecFetchLive == InitFetch /\ [][NextFetch]_vars /\ WF_vars(NextFetch)

-----------------------------------------------------------------------------
(* Properties of the matcher *)

\* the sequence a raw field stands for: absent = <<>>, scalar = <<e>>,
\* array = its elements, localized mapping = its resolved value
Normalized(raw) ==
    CASE raw.k = "absent" -> <<>>
      [] raw.k = "scalar" -> raw.v
      [] raw.k = "list" -> raw.v
      [] raw.k = "dict" -> LocalizedList(raw).val

\* <<field of the notice, field of the lot record>>
CurrencyFields ==
    {<<"estimated_value_cur_lot", "estimated_currency">>,
     <<"tender_value_cur", "tender_currency">>}
WinnerFields ==
    {<<"winner_name", "winner_name">>, <<"winner_country", "winner_country">>,
     <<"winner_city", "winner_city">>}

\* match_winners_to_lots has returned (it did not raise)
Returned == phase \in {"matched", "filtered"} /\ ~lots.raised

\* C1: match_winners_to_lots returns exactly
\* max(1, len(lot_ids), len(estimated_values), len(tender_values)) records.
C1_LotCount ==
    Returned =>
        Len(lots.value) =
            Max(1, Max(Len(Normalized(notice.identifier_lot)),
                       Max(Len(Normalized(notice.estimated_value_lot)),
                           Len(Normalized(notice.tender_value)))))

\* C2 as stated: in the mismatch case (length neither 1 nor the number of
\* records) each of the five fields carries its i-th value at a position i
\* below its length and the sentinel beyond it.
C2_PositionalWinners ==
    Returned =>
        LET n == Len(lots.value)
        IN \A p \in CurrencyFields \cup WinnerFields :
            LET q == Normalized(notice[p[1]])
                sentinel == IF p \in WinnerFields THEN Str("N/A") ELSE Str("EUR")
            IN Len(q) \notin {1, n} =>
                \A i \in 0..(n - 1) :
                    lots.value[i + 1][p[2]] = IF i < Len(q) THEN q[i + 1] ELSE sentinel

\* C2 amended: in the mismatch case a currency field carries its i-th value
\* at a position i below its length and "EUR" beyond it, and a winner field
\* carries "N/A" in every record.
C2_MismatchRule ==
    Returned =>
        LET n == Len(lots.value)
        IN /\ \A p \in CurrencyFields :
                LET q == Normalized(notice[p[1]])
                IN Len(q) \notin {1, n} =>
                    \A i \in 0..(n - 1) :
                        lots.value[i + 1][p[2]] =
                            IF i < Len(q) THEN q[i + 1] ELSE Str("EUR")
           /\ \A p \in WinnerFields :
                Len(Normalized(notice[p[1]])) \notin {1, n} =>
                    \A i \in 1..n : lots.value[i][p[2]] = Str("N/A")

\* three lots, two winner names and two tender currencies
C2_Witness ==
    /\ Returned
    /\ Len(lots.value) = 3
    /\ Len(Normalized(notice.winner_name)) = 2
    /\ Len(Normalized(notice.tender_value_cur)) = 2
    /\ lots.value[1].winner_name = Str("N/A")
    /\ lots.value[2].tender_currency = Str("C2")
    /\ lots.value[3].tender_currency = Str("EUR")

\* C8: a field whose normalized sequence has length exactly 1 gives its
\* single value to every record, whatever the number of records.
C8_Broadcast ==
    Returned =>
        \A p \in CurrencyFields \cup WinnerFields :
            LET q == Normalized(notice[p[1]])
            IN Len(q) = 1 =>
                \A i \in 1..Len(lots.value) : lots.value[i][p[2]] = q[1]

\* three lot identifiers and one winner name
C8_Witness ==
    /\ Returned
    /\ Len(Normalized(notice.identifier_lot)) = 3
    /\ Len(lots.value) = 3
    /\ Normalized(notice.winner_name) = <<Str("W1")>>
    /\ \A i \in 1..3 : lots.value[i].winner_name = Str("W1")

\* C9: a field whose normalized sequence is as long as the list of records
\* gives record i its i-th value.
C9_Aligned ==
    Returned =>
        \A p \in CurrencyFields \cup WinnerFields :
            LET q == Normalized(notice[p[1]])
            IN Len(q) = Len(lots.value) =>
                \A i \in 1..Len(lots.value) : lots.value[i][p[2]] = q[i]

\* three lot identifiers and three winner names
C9_Witness ==
    /\ Returned
    /\ Len(Normalized(notice.identifier_lot)) = 3
    /\ Normalized(notice.winner_name) = <<Str("W1"), Str("W2"), Str("W3")>>
    /\ \A i \in 1..3 : lots.value[i].winner_name = Str("W" \o ToString(i))

LotFields ==
    {"identifier_lot", "estimated_value_lot", "estimated_value_cur_lot",
     "winner_name", "winner_country", "winner_city", "tender_value",
     "tender_value_cur"}

\* the value a record carries for an absent or scalar field
Carried(raw, default) == IF raw.k = "scalar" THEN raw.v[1] ELSE default

\* C10: match_winners_to_lots returns at least one record for every notice,
\* and exactly one record carrying the scalars when every lot-related field
\* is absent or a single scalar.
C10_AtLeastOneLot ==
    phase \in {"matched", "filtered"} =>
        /\ ~lots.raised
        /\ Len(lots.value) >= 1
        /\ (\A f \in LotFields : notice[f].k \in {"absent", "scalar"}) =>
            lots.value =
                <<[lot_id |-> Carried(notice.identifier_lot, Str("LOT-1")),
                   estimated_value |-> Carried(notice.estimated_value_lot, Null),
                   estimated_currency |-> Carried(notice.estimated_value_cur_lot, Str("EUR")),
                   tender_value |-> Carried(notice.tender_value, Null),
                   tender_currency |-> Carried(notice.tender_value_cur, Str("EUR")),
                   winner_name |-> Carried(notice.winner_name, Str("N/A")),
                   winner_country |-> Carried(notice.winner_country, Str("N/A")),
                   winner_city |-> Carried(notice.winner_city, Str("N/A"))]>>

-----------------------------------------------------------------------------
(* Properties of the filter *)

\* the lot's tender value is not None
HasTenderValue(lot) == lot.tender_value # Null

\* the filter returned the notice
Emitted == phase = "filtered" /\ high_value # <<>>

RECURSIVE SumEurValue(_)
SumEurValue(cls) ==
    IF cls = <<>> THEN 0 ELSE cls[1].eur_value + SumEurValue(Tail(cls))

\* the sum of the converted tender values of the records ls
RECURSIVE ConvertedTotal(_)
ConvertedTotal(ls) ==
    IF ls = <<>> THEN 0
    ELSE (IF ls[1].tender_value.t = "num"
          THEN convert_to_eur(ls[1].tender_value.n, ls[1].tender_currency).value
          ELSE 0) + ConvertedTotal(Tail(ls))

\* C5: the emitted lots are exactly the records whose tender value is not
\* None (a value of 0 included), in matcher order, each with its converted
\* value, and total_eur is the sum of the emitted eur_value.  Stated for
\* notices whose tender values are all numbers or None.
C5_EmitsEveryNonNone ==
    (Emitted /\ \A i \in 1..Len(lots.value) :
                    lots.value[i].tender_value.t \in {"null", "num"}) =>
        LET expected == SelectSeq(lots.value, HasTenderValue)
            hv == high_value[1]
        IN /\ Len(hv.lots) = Len(expected)
           /\ \A i \in 1..Len(expected) :
                /\ hv.lots[i].lot_id = expected[i].lot_id
                /\ hv.lots[i].tender_value = expected[i].tender_value.n
                /\ hv.lots[i].eur_value =
                     convert_to_eur(expected[i].tender_value.n,
                                    expected[i].tender_currency).value
           /\ hv.total_eur = SumEurValue(hv.lots)

\* C6: the filter returns the notice iff it is a result notice and the sum
\* of its converted tender values is at least the threshold, and the
\* returned record carries that sum.
C6_ThresholdInclusive ==
    phase = "filtered" =>
        /\ high_value # <<>> <=>
              /\ is_result_notice(notice)
              /\ ConvertedTotal(lots.value) >= min_value_eur * RateScale
        /\ high_value # <<>> =>
              /\ Len(high_value) = 1
              /\ high_value[1].total_eur = ConvertedTotal(lots.value)

\* two lots of 10,000,000 and 5,000,000 EUR meet the 15,000,000 threshold
\* exactly and the notice is returned
C6_Witness ==
    /\ Emitted
    /\ min_value_eur = DefaultMinValueEur
    /\ Normalized(notice.tender_value) = <<Num(10000), Num(5000)>>
    /\ high_value[1].total_eur = DefaultMinValueEur * RateScale

\* str.lower() of one character, for the letters of the form types and of
\* the currency codes
LowerChar(c) == CASE c = "R" -> "r" [] c = "E" -> "e" [] c = "S" -> "s"
                  [] c = "U" -> "u" [] c = "L" -> "l" [] c = "T" -> "t"
                  [] c = "B" -> "b" [] c = "C" -> "c" [] c = "D" -> "d"
                  [] c = "F" -> "f" [] c = "G" -> "g" [] c = "H" -> "h"
                  [] c = "K" -> "k" [] c = "N" -> "n" [] c = "O" -> "o"
                  [] c = "P" -> "p" [] c = "Z" -> "z" [] c = "X" -> "x"
                  [] c = "J" -> "j" [] c = "Y" -> "y"
                  [] OTHER -> c

RECURSIVE Lower(_)
Lower(str) ==
    IF Len(str) = 0 THEN ""
    ELSE LowerChar(SubSeq(str, 1, 1)) \o Lower(SubSeq(str, 2, Len(str)))

\* sub in str
Contains(str, sub) ==
    \E i \in 1..(Len(str) - Len(sub) + 1) : SubSeq(str, i, i + Len(sub) - 1) = sub

\* notice.get("form-type", "")
FormTypeOf(nt) == IF nt.form_type.k = "scalar" THEN nt.form_type.v[1].s ELSE ""

\* C7 as stated: a notice whose total meets the threshold is returned iff
\* its form-type, lowercased, contains "result".
C7_SubstringMatch ==
    (phase = "filtered" /\ ConvertedTotal(lots.value) >= min_value_eur * RateScale) =>
        (high_value # <<>> <=> Contains(Lower(FormTypeOf(notice)), "result"))

\* C7 amended: a notice whose total meets the threshold is returned iff its
\* form-type is exactly "result".
C7_ExactMatch ==
    (phase = "filtered" /\ ConvertedTotal(lots.value) >= min_value_eur * RateScale) =>
        (high_value # <<>> <=> FormTypeOf(notice) = "result")

\* "contract-result-notice" with a total above the threshold is not returned
C7_Witness ==
    /\ phase = "filtered"
    /\ FormTypeOf(notice) = "contract-result-notice"
    /\ ConvertedTotal(lots.value) >= min_value_eur * RateScale
    /\ high_value = <<>>

\* the lot has no anomaly: its tender value is a number and its currency
\* can be converted
LotConverts(lot) ==
    /\ lot.tender_value.t = "num"
    /\ ~convert_to_eur(lot.tender_value.n, lot.tender_currency).raised

\* C16: an anomaly in one lot (a tender value that is not a number, a
\* currency that is not a string) removes that lot only: the notice is
\* returned iff the other lots reach the threshold, with their sum as
\* total_eur and with exactly those lots.
C16_AnomalySkipsOnlyLot ==
    (phase = "filtered" /\ is_result_notice(notice) /\ ~lots.raised) =>
        LET sound == SelectSeq(lots.value, LotConverts)
            total == ConvertedTotal(sound)
        IN /\ high_value # <<>> <=> total >= min_value_eur * RateScale
           /\ high_value # <<>> =>
                /\ high_value[1].total_eur = total
                /\ Len(high_value[1].lots) = Len(sound)
                /\ \A i \in 1..Len(sound) :
                        high_value[1].lots[i].lot_id = sound[i].lot_id

-----------------------------------------------------------------------------
(* Properties of the deduplication *)

\* thread t takes a step of its scan
ScanMoves(t) == sc'[t] # sc[t]

\* C3: with the scans run one after the other, a notice seen again less
\* than 24 hours after its alert is not alerted again; once 24 hours have
\* elapsed since the recorded time, the scan that sees it sends the alert
\* and records the time anew.
C3_DedupWindow ==
    /\ [](\A p \in PubIds :
            Len(alerts[p]) = 2 => alerts[p][2] >= alerts[p][1] + Expiry)
    /\ [][\A t \in Threads :
            /\ (sc[t].pc = "age" /\ ScanMoves(t)
                    /\ now - notified[Current(t)] < Expiry)
                 => (sc'[t].pc # "notify" /\ alerts' = alerts /\ notified' = notified)
            /\ (sc[t].pc = "age" /\ ScanMoves(t)
                    /\ now - notified[Current(t)] >= Expiry)
                 => sc'[t].pc = "notify"
            /\ (sc[t].pc = "notify" /\ ScanMoves(t))
                 => alerts'[Current(t)] = LastTwo(Append(alerts[Current(t)], now))
            /\ (sc[t].pc = "mark" /\ ScanMoves(t))
                 => notified'[Current(t)] = now]_vars

\* P1 was alerted a second time, 24 hours after its first alert, and its
\* recorded time is that of the second alert
C3_Witness ==
    /\ Len(alerts["P1"]) = 2
    /\ alerts["P1"][2] = alerts["P1"][1] + Expiry
    /\ notified["P1"] = alerts["P1"][2]

\* C4: under any interleaving of an on-demand scan with a timer-triggered
\* scan, no publication id is alerted twice within its 24-hour window
\* (notified not having been cleared in between).
C4_NoDoubleAlert ==
    \A p \in PubIds :
        \A i, j \in 1..Len(alerts[p]) :
            i < j => alerts[p][j] - alerts[p][i] >= Expiry

-----------------------------------------------------------------------------
(* Properties of the message delivery *)

\* C11: a send that fails is retried exactly once without a parse mode
\* (plain text); whatever the outcome of the retry, _send is over after it.
C11_PlainTextRetry ==
    (last_send # <<>> /\ ~last_send[1].ok) =>
        /\ Len(last_send) = 2
        /\ last_send[2].parse_mode = "None"

-----------------------------------------------------------------------------
(* Properties of /stop and /resume *)

\* the monitoring loop is at the start of an automatic scan
AutoScanStarts == mon = "scan" /\ sc["monitor"].pc = "fetch"

\* the run has used up its clock advances while the loop waits in
\* time.sleep(600)
ClockExhausted == mon = "sleep" /\ ticks = MaxTicks /\ now < wake_at

\* C12: whenever is_running is set, as it is from a /resume on whatever the
\* position of the loop was when the /stop came, the monitoring loop
\* eventually starts an automatic scan, unless is_running is cleared again
\* (or the run's clock ends during the 10-minute wait).
C12_ResumeRestartsScans ==
    is_running ~> (AutoScanStarts \/ ~is_running \/ ClockExhausted)

\* C13: while is_running is and stays false the monitoring loop starts no
\* scan; a scan in flight is carried through whatever the flag is: it comes
\* to its end, and with the flag cleared each of its alerts is still sent
\* and then recorded in notified.
C13_StopBetweenScans ==
    /\ [][(~is_running /\ ~is_running') => ~(mon # "scan" /\ mon' = "scan")]_vars
    /\ (mon = "scan") ~> (mon # "scan")
    /\ [][(~is_running /\ ScanMoves("monitor"))
            => /\ sc["monitor"].pc = "notify"
                    => /\ sc'["monitor"].pc = "mark"
                       /\ alerts'[Current("monitor")] =
                            LastTwo(Append(alerts[Current("monitor")], now))
               /\ sc["monitor"].pc = "mark"
                    => notified'[Current("monitor")] = now]_vars

\* /stop arrived during the automatic scan, which has alerted P1, recorded
\* it and returned
C13_Witness ==
    /\ ~is_running
    /\ mon = "scan"
    /\ sc["monitor"].pc = "return"
    /\ sc["monitor"].new_count = 1
    /\ notified["P1"] = now
    /\ alerts["P1"] # <<>>

-----------------------------------------------------------------------------
(* Properties of the fetch *)

\* the last request was answered with status 200 and one of the three end
\* conditions holds: an empty page, the accumulated notices reach the total
\* the response reports, or a page shorter than the page size
EndOfResults ==
    /\ response.status_code = 200
    /\ \/ response.notices = <<>>
       \/ Len(all_notices) >= response.total
       \/ Len(response.notices) < limit

\* C14: no page is requested once a page has arrived empty, the accumulated
\* notices have reached the reported total, or a page has arrived short; in
\* particular no page is requested beyond the last full one when the total
\* is a multiple of the page size.
C14_StopsAtTotal ==
    [][EndOfResults => requested' = requested]_vars

\* the last request failed: a status other than 200, or an exception
RequestFailed == response.raised \/ response.status_code \notin {0, 200}

\* C15: after a failed page request no further page is requested, and the
\* fetch returns the notices of the pages fetched before it (those the date
\* filter keeps).
C15_PartialResultsKept ==
    /\ [][RequestFailed => requested' = requested]_vars
    /\ [](RequestFailed =>
            \E us \in Microseconds : fetched = KeptByDate(all_notices, us))

-----------------------------------------------------------------------------
(* Properties of a batch with malformed notices *)

\* str(notice["publication-number"])
PubOf(nt) == nt.publication_number.v[1].s

\* the processing of the notice raises
Malformed(nt) == ProcessNotice(nt, DefaultMinValueEur).raised

WellFormed(nt) == ~Malformed(nt)

\* a well-formed result notice that meets the default threshold
Qualifies(nt) ==
    /\ is_result_notice(nt)
    /\ WellFormed(nt)
    /\ ProcessNotice(nt, DefaultMinValueEur).value # <<>>

\* C17: the filter gives for a batch what it gives for the batch without
\* its malformed notices (nothing propagates, every other notice is still
\* evaluated), every well-formed qualifying notice is among the notices
\* the scan works on, and when the scan returns each of them has been
\* alerted and recorded.
C17_MalformedNoticeIsLocal ==
    /\ sc["webhook"].pc \notin {"idle", "fetch"} =>
            /\ sc["webhook"].high_value =
                    PubNums(filter_high_value_results(
                                SelectSeq(batch, WellFormed), DefaultMinValueEur))
            /\ \A i \in 1..Len(batch) :
                    Qualifies(batch[i]) =>
                        \E j \in 1..Len(sc["webhook"].high_value) :
                            sc["webhook"].high_value[j] = PubOf(batch[i])
    /\ sc["webhook"].pc = "return" =>
            \A i \in 1..Len(batch) :
                Qualifies(batch[i]) =>
                    /\ alerts[PubOf(batch[i])] # <<>>
                    /\ notified[PubOf(batch[i])] # NotNotified

\* a batch of a malformed notice, a qualifying one and a second malformed
\* one: the scan has returned having alerted the qualifying notice only
C17_Witness ==
    /\ batch = <<BadCurrency, N1, BadWinner>>
    /\ sc["webhook"].pc = "return"
    /\ sc["webhook"].new_count = 1
    /\ alerts["P1"] # <<>>
    /\ alerts["P4"] = <<>>

-----------------------------------------------------------------------------
(* Properties of the resolution of localized mappings *)

\* C18: resolving a value never raises, whatever the shape of the mapping.
C18_ResolutionNeverRaises ==
    resolved.called => ~resolved.raised

\* the mapping has an entry for the language
HasLang(d, l) == \E j \in 1..Len(d) : d[j].lang = l

\* the value of the mapping's entry for the language
ValueOf(d, l) == d[CHOOSE j \in 1..Len(d) : d[j].lang = l].val

\* the entry's value is not None, "" or []
NonEmpty(val) ==
    IF val.k = "list" THEN val.v # <<>> ELSE val.v[1] \notin {Null, Str("")}

\* the call returned the entry value val: a scalar as it is, a one-element
\* list as its element (the claim leaves longer lists open)
Returns(val) ==
    /\ val.k = "scalar" =>
            resolved.val = IF val.v[1] = Null THEN Absent ELSE Scalar(val.v[1])
    /\ (val.k = "list" /\ Len(val.v) = 1) => resolved.val = Scalar(val.v[1])

\* C19: a call that returns gives, for a mapping, the entry of the first
\* preferred language that is present and non-empty, or the mapping's first
\* value when no preferred language is a key of it, a one-element list
\* being unwrapped to its element either way; anything that is not a
\* mapping is returned unchanged.
C19_ResolutionOrder ==
    (resolved.called /\ ~resolved.raised) =>
        IF arg_data.k # "dict" THEN resolved.val = arg_data
        ELSE LET d == arg_data.d
                 usable == {i \in 1..Len(arg_langs) :
                                HasLang(d, arg_langs[i]) /\ NonEmpty(ValueOf(d, arg_langs[i]))}
             IN /\ usable # {} =>
                    Returns(ValueOf(d, arg_langs[
                        CHOOSE i \in usable : \A j \in usable : i <= j]))
                /\ (d # <<>> /\ \A i \in 1..Len(arg_langs) : ~HasLang(d, arg_langs[i])) =>
                    Returns(d[1].val)

\* the filter's list resolves a mapping whose first key is no preferred
\* language and whose second is "pol" holding a one-element list
C19_Witness ==
    /\ resolved.called
    /\ ~resolved.raised
    /\ arg_langs = FilterLangs
    /\ arg_data = Dict(<<Entry("lav", Scalar(Str("lav1"))),
                         Entry("pol", List(<<Str("pol1")>>))>>)
    /\ resolved.val = Scalar(Str("pol1"))

-----------------------------------------------------------------------------
(* Properties of the conversion *)

\* the codes of the rate table that the currency equals up to case
TableCodes(cur) == {c \in DOMAIN rates : Lower(c) = Lower(cur.s)}

\* C20: convert_to_eur returns the amount unchanged for an empty currency
\* and for EUR, the amount times the table's rate for a code that is in
\* the table in whatever case, and the amount unchanged for a code the
\* table does not have.  (Amounts and rates carry RateScale.)
C20_ConvertToEur ==
    converted.called =>
        /\ ~converted.raised
        /\ arg_currency \in {Null, Str(""), Str("EUR")} =>
                converted.value = arg_amount * RateScale
        /\ (arg_currency.t = "str" /\ arg_currency.s # "") =>
                /\ \A c \in TableCodes(arg_currency) :
                        converted.value = arg_amount * rates[c]
                /\ TableCodes(arg_currency) = {} =>
                        converted.value = arg_amount * RateScale

\* convert_to_eur(100, "usd") is 100 times the rate of USD, 0.92
C20_Witness ==
    /\ converted.called
    /\ arg_amount = 100
    /\ arg_currency = Str("usd")
    /\ converted.value = 100 * 9200
    /\ converted.value # arg_amount * RateScale

\* the currency is a non-empty code, other than EUR, that the rate table
\* does not have in any case
UnknownCode(cur) ==
    /\ cur.t = "str"
    /\ cur.s \notin {"", "EUR"}
    /\ TableCodes(cur) = {}

\* C21: converting with a code the rate table does not have returns the
\* amount unchanged and emits one warning that names the code; no warning
\* is emitted for EUR, an empty code or a code of the table.
C21_WarnsUnknownCode ==
    converted.called =>
        IF UnknownCode(arg_currency)
        THEN /\ converted.value = arg_amount * RateScale
             /\ converted.warnings = <<arg_currency.s>>
        ELSE converted.warnings = <<>>

\* the entry of q at the 0-based position i when it exists, else default
EntryOr(q, i, default) == IF i < Len(q) THEN q[i + 1] ELSE default

\* C22: the record at position i (0-based) carries the i-th lot identifier
\* when there is one and the string "LOT-{i+1}" otherwise; its
\* estimated_value and tender_value are the i-th entries of their sequences
\* when they exist and None otherwise.
C22_PositionalIdsAndValues ==
    Returned =>
        \A i \in 0..(Len(lots.value) - 1) :
            LET rec == lots.value[i + 1]
            IN /\ rec.lot_id =
                    EntryOr(Normalized(notice.identifier_lot), i,
                            Str("LOT-" \o ToString(i + 1)))
               /\ rec.estimated_value =
                    EntryOr(Normalized(notice.estimated_value_lot), i, Null)
               /\ rec.tender_value =
                    EntryOr(Normalized(notice.tender_value), i, Null)

\* one lot identifier, two estimated values and three tender values: the
\* second and third records get synthesized identifiers, the third has no
\* estimated value
C22_Witness ==
    /\ Returned
    /\ Normalized(notice.identifier_lot) = <<Str("L1")>>
    /\ Normalized(notice.estimated_value_lot) = <<Num(101), Num(102)>>
    /\ Normalized(notice.tender_value) = <<Num(201), Num(202), Num(203)>>
    /\ Len(lots.value) = 3
    /\ lots.value[1].lot_id = Str("L1")
    /\ lots.value[2].lot_id = Str("LOT-2")
    /\ lots.value[3].lot_id = Str("LOT-3")
    /\ lots.value[2].estimated_value = Num(102)
    /\ lots.value[3].estimated_value = Null
    /\ lots.value[3].tender_value = Num(203)

-----------------------------------------------------------------------------
(* Alerts whose delivery failed *)

\* the message of the last alert was not delivered
DeliveryFailed == last_send # <<>> /\ ~last_send[1].ok

\* C23: with the scans run one after the other, a notice the dedup check
\* lets through is recorded in notified with the current time right after
\* its _notify call and counted, whether the message was delivered or not;
\* notified and the count change at no other step of a scan, so the count
\* _scan returns is the number of ids it recorded; an alert whose delivery
\* failed is not attempted again during the following 24 hours.
C23_RecordedThoughUndelivered ==
    [][\A t \in Threads :
        ScanMoves(t) =>
            /\ sc[t].pc = "notify" => sc'[t].pc = "mark"
            /\ sc[t].pc = "mark" =>
                    /\ notified'[Current(t)] = now
                    /\ sc'[t].new_count = sc[t].new_count + 1
            /\ sc[t].pc # "mark" =>
                    /\ notified' = notified
                    /\ sc'[t].pc # "idle" => sc'[t].new_count = sc[t].new_count
            /\ (sc[t].pc = "notify" /\ DeliveryFailed
                    /\ alerts[Current(t)] # <<>>) =>
                    now >= alerts[Current(t)][Len(alerts[Current(t)])] + Expiry]_vars

\* the message of the alert of P1 was not delivered; a later scan, less
\* than 24 hours after it, has seen P1 again and returns 0
C23_Witness ==
    /\ DeliveryFailed
    /\ Len(alerts["P1"]) = 1
    /\ notified["P1"] = alerts["P1"][1]
    /\ now > notified["P1"]
    /\ now - notified["P1"] < Expiry
    /\ \E t \in Threads :
        /\ sc[t].pc = "return"
        /\ sc[t].high_value = <<"P1">>
        /\ sc[t].new_count = 0

-----------------------------------------------------------------------------
(* Termination of the fetch *)

\* C24: fetch_all_contracts returns whatever the upstream answers; it makes
\* at most 10 page requests, for the pages 1, 2, 3, ... in this order, so
\* no page is requested twice, even when every page arrives full.
C24_FetchTerminates ==
    /\ [](/\ Len(requested) <= 10
          /\ \A i \in 1..Len(requested) : requested[i] = i)
    /\ <>(fpc = "done")

\* the upstream has answered ten requests with ten full pages and the
\* fetch has returned
C24_Witness ==
    /\ fpc = "done"
    /\ requested = <<1, 2, 3, 4, 5, 6, 7, 8, 9, 10>>
    /\ response.status_code = 200
    /\ Len(response.notices) = limit
    /\ Len(all_notices) = 10 * limit

-----------------------------------------------------------------------------
(* The /test command *)

\* /test has listed the publication id p
Listed(p) == \E i \in 1..Len(listed) : listed[i] = p

\* some notice of p meets the threshold of the regular scans
MeetsRegularThreshold(p) ==
    \E ns \in Feeds :
        LET hv == PubNums(filter_high_value_results(ns, DefaultMinValueEur))
        IN \E i \in 1..Len(hv) : hv[i] = p

\* C25: a /test that lists notices leaves notified, is_running and every
\* scan in progress as they are and sends nothing through _notify or
\* _send; a notice it has listed that is not recorded is alerted by the
\* regular scan that sees it, one that is recorded less than 24 hours ago
\* is skipped, and a notice below the 15,000,000 threshold is never alerted.
C25_TestLeavesDedupAlone ==
    /\ [][listed' # listed =>
            /\ notified' = notified
            /\ is_running' = is_running
            /\ alerts' = alerts
            /\ last_send' = last_send
            /\ sc' = sc]_vars
    /\ [][\A t \in Threads :
            (ScanMoves(t) /\ sc[t].pc \in {"check", "age"} /\ Listed(Current(t))) =>
                /\ (sc[t].pc = "check" /\ notified[Current(t)] = NotNotified)
                        => sc'[t].pc = "notify"
                /\ (sc[t].pc = "age" /\ now - notified[Current(t)] < Expiry)
                        => (sc'[t].pc # "notify" /\ alerts' = alerts)]_vars
    /\ [](\A p \in PubIds : alerts[p] # <<>> => MeetsRegularThreshold(p))

\* /test has listed P3 and P1 and the /scan after it is alerting P1, which
\* nothing had recorded; P3, below the regular threshold, is not alerted
C25_Witness ==
    /\ listed = <<"P3", "P1">>
    /\ cmds = 2
    /\ web = "scan"
    /\ sc["webhook"].pc = "mark"
    /\ Current("webhook") = "P1"
    /\ notified = [p \in PubIds |-> NotNotified]
    /\ alerts["P1"] = <<now>>
    /\ alerts["P3"] = <<>>

=============================================================================
